---- MODULE Spec2Model ----
(***************************************************************************)
(* A model of neurokit2/eda/eda_decompose.py: the dispatcher eda_decompose, *)
(* the two filter-based decomposers and the cvxEDA decomposer, with the     *)
(* process-wide dictionary cvxopt.solvers.options it saves, clears, sets    *)
(* and restores around the solver call.                                     *)
(*                                                                          *)
(* Numbers: time constants are held in tenths of a second (0.7 s is 7),     *)
(* delta_knot in halves of a second (10 s is 20), reltol 1e-k as k.         *)
(* Characters are one-character strings, a method name a sequence of them.  *)
(***************************************************************************)
EXTENDS Integers, Sequences, FiniteSets, TLC

\* ------------------------------------------------------------------ bounds

\* Longest signal of a call of the pipeline.
MaxLen == 3
\* Longest signal and widest knot spacing the spline builder is applied to.
MaxN == 9
MaxKnot == 4

\* ------------------------------------------------------- program constants

\* tau0=2., tau1=0.7 (tenths), delta_knot=10. (halves), reltol=1e-9.
DefaultTau0 == 20
DefaultTau1 == 7
DefaultDeltaKnot == 20
DefaultReltol == 9
\* smoothing_factor=4
DefaultSmoothingFactor == 4
\* C has two columns: np.c_[np.ones(n), np.arange(1., n+1.)/n]
TrendColumns == 2
\* cvxopt's own reltol (1e-7), used when the options hold none.
SolverOwnReltol == 7

Threads == {1, 2}

\* ----------------------------------------------------------------- inputs

SampleVals == {0, 1}
Signals == UNION {[1..k -> SampleVals] : k \in 1..MaxLen}
SamplingRates == {1, 2}
Taus == {-10, 0, 10, DefaultTau0}
DeltaKnots == {-1, 0, 1, 2, 3}
Solvers == {"None", "conelp"}
Reltols == {6, DefaultReltol}

\* --------------------------------------------------------------- str.lower

UpperCase ==
  <<"A","B","C","D","E","F","G","H","I","J","K","L","M",
    "N","O","P","Q","R","S","T","U","V","W","X","Y","Z">>
LowerCase ==
  <<"a","b","c","d","e","f","g","h","i","j","k","l","m",
    "n","o","p","q","r","s","t","u","v","w","x","y","z">>

CharLower(c) ==
  IF \E k \in 1..Len(UpperCase) : UpperCase[k] = c
  THEN LowerCase[CHOOSE k \in 1..Len(UpperCase) : UpperCase[k] = c]
  ELSE c

CharUpper(c) ==
  IF \E k \in 1..Len(LowerCase) : LowerCase[k] = c
  THEN UpperCase[CHOOSE k \in 1..Len(LowerCase) : LowerCase[k] = c]
  ELSE c

LowerNoOp(m) == m

\* method.lower()
Lower(m) == [i \in 1..Len(m) |-> CharLower(m[i])]

S_cvxeda == <<"c","v","x","e","d","a">>
S_median == <<"m","e","d","i","a","n">>
S_smoothmedian == <<"s","m","o","o","t","h","m","e","d","i","a","n">>
S_highpass == <<"h","i","g","h","p","a","s","s">>
S_biopac == <<"b","i","o","p","a","c">>
S_acqknowledge == <<"a","c","q","k","n","o","w","l","e","d","g","e">>
S_biosppy == <<"b","i","o","s","p","p","y">>
S_unknown == <<"u","n","k","n","o","w","n","_","m","e","t","h","o","d">>
S_cvx == <<"c","v","x">>
S_cvxeda2 == <<"c","v","x","e","d","a","2">>
S_empty == <<>>

KnownNames ==
  {S_cvxeda, S_median, S_smoothmedian, S_highpass, S_biopac, S_acqknowledge}

\* A name with the letters at the positions of `up` in capitals.
Capitalised(m, up) ==
  [i \in 1..Len(m) |-> IF i \in up THEN CharUpper(m[i]) ELSE m[i]]

\* The spellings of a name: as is, all in capitals, the first letter in
\* capitals, the last three in capitals (cvxEDA), every other one in capitals.
Spellings(m) ==
  {m, Capitalised(m, 1..Len(m)), Capitalised(m, {1}),
   Capitalised(m, (Len(m) - 2)..Len(m)),
   Capitalised(m, {i \in 1..Len(m) : i % 2 = 0})}

Methods ==
  UNION {Spellings(m) : m \in KnownNames \cup {S_biosppy, S_cvx, S_cvxeda2}}
    \cup {S_unknown, S_empty}

\* ------------------------------------------------------------------ state

VARIABLES
  options,        \* cvxopt.solvers.options, one dictionary for the process
  pc,             \* per thread: the statement it is about to run
  entry,          \* per thread: the function the caller called
  entry_options,  \* per thread: options as they were when its call began
  args,           \* per thread: the arguments of _eda_decompose_* / eda_decompose
  invoked,        \* per thread: the decomposers eda_decompose has called
  arma,           \* per thread: <<>> or <<[ar, ma, rows]>>, the matrices A and M
  basis,          \* per thread: <<>> or <<[nB, size, taps, nnz]>>, the matrix B
  old_options,    \* per thread: the local old_options
  solved_with,    \* per thread: <<>> or <<the reltol its solver call ran with>>
  res,            \* per thread: <<>> or <<[status, x]>>, the solver's result
  out,            \* per thread: <<>> or <<the returned table>>
  error,          \* per thread: <<>> or <<[type, at]>>, the exception raised
  sp              \* the spline builder applied on its own: [stage, n, s, spl, B]

vars ==
  <<options, pc, entry, entry_options, args, invoked, arma,
    basis, old_options, solved_with, res, out, error, sp>>

\* -------------------------------------------------------------- dict

EmptyDict == [k \in {} |-> 0]

\* d.copy()
DictCopy(d) == d

\* d.update(e)
DictUpdate(d, e) ==
  [k \in DOMAIN d \cup DOMAIN e |-> IF k \in DOMAIN e THEN e[k] ELSE d[k]]

\* The options a process may hold when a call begins: cvxopt's own (none
\* set), or what a user of cvxopt has set.
InitOptions ==
  {EmptyDict,
   [k \in {"reltol", "show_progress"} |-> IF k = "reltol" THEN 3 ELSE 1]}

\* ------------------------------------------------------------ arithmetic

Min(a, b) == IF a < b THEN a ELSE b
Max(a, b) == IF a > b THEN a ELSE b

\* int(round(x)) of Python 3, x given in halves: ties go to the even integer.
PyRoundHalves(x2) ==
  IF x2 % 2 = 0 THEN x2 \div 2
  ELSE LET f == (x2 - 1) \div 2 IN IF f % 2 = 0 THEN f ELSE f + 1

\* int(round(delta_knot / frequency)), frequency = 1/sampling_rate; the
\* sampling rates of the model are powers of two, for which the quotient is
\* exactly delta_knot * sampling_rate.
KnotSamplesAtLeastOne(delta_knot2, sampling_rate) ==
  Max(1, PyRoundHalves(delta_knot2 * sampling_rate))

KnotSamples(delta_knot2, sampling_rate) == PyRoundHalves(delta_knot2 * sampling_rate)

\* ---------------------------------------------------------- spline basis

RampPlain(s) == [i \in 1..s |-> i]

\* np.r_[np.arange(1., s), np.arange(s, 0., -1.)]: 1, ..., s-1, s, s-1, ..., 1;
\* both ranges are empty when s < 1.
Ramp(s) ==
  IF s < 1 THEN <<>> ELSE [i \in 1..(2 * s - 1) |-> IF i < s THEN i ELSE 2 * s - i]

RECURSIVE SumTo(_, _)
SumTo(f, k) == IF k = 0 THEN 0 ELSE f[k] + SumTo(f, k - 1)

\* np.convolve(a, v, 'full') of two non-empty sequences.
Convolve(a, v) ==
  [k \in 1..(Len(a) + Len(v) - 1) |->
     SumTo([i \in 1..Len(a) |->
              IF k - i + 1 \in 1..Len(v) THEN a[i] * v[k - i + 1] ELSE 0],
           Len(a))]

\* np.convolve raises ValueError ("a cannot be empty") on an empty argument.
ConvolveRaises(a, v) == Len(a) = 0 \/ Len(v) = 0

SeqMax(q) == CHOOSE m \in {q[i] : i \in 1..Len(q)} : \A i \in 1..Len(q) : q[i] <= m

\* spl /= max(spl): each tap as the fraction <<numerator, denominator>>.
Normalise(q) == [i \in 1..Len(q) |-> <<q[i], SeqMax(q)>>]

\* np.arange(0, n, s), s >= 1.
Knots(n, s) == {k \in 0..(n - 1) : k % s = 0}

AssembleUnmasked(spl, n, s) ==
  LET L == Len(spl)
      nB == Cardinality(Knots(n, s))
      all == {[row |-> (r - 1) - (L \div 2) + s * c, col |-> c, val |-> spl[r]] :
                r \in 1..L, c \in 0..(nB - 1)}
      rows == {t.row : t \in all}
      cols == {t.col : t \in all}
  IN [nB |-> nB, B |-> all,
      size |-> IF all = {} THEN <<0, 0>>
               ELSE <<(CHOOSE m \in rows : \A r \in rows : r <= m) + 1,
                      (CHOOSE m \in cols : \A c \in cols : c <= m) + 1>>]

\* Lines 181-186: tap r of column c lands in row r - 1 - len(spl)//2 + s*c,
\* the taps outside [0, n) are masked out, and cvxopt.spmatrix(V, I, J), given
\* no size, takes (max(I) + 1, max(J) + 1).
Assemble(spl, n, s) ==
  LET L == Len(spl)
      nB == Cardinality(Knots(n, s))
      all == {[row |-> (r - 1) - (L \div 2) + s * c, col |-> c, val |-> spl[r]] :
                r \in 1..L, c \in 0..(nB - 1)}
      valid == {t \in all : t.row >= 0 /\ t.row < n}
      rows == {t.row : t \in valid}
      cols == {t.col : t \in valid}
  IN [nB |-> nB, B |-> valid,
      size |-> IF valid = {} THEN <<0, 0>>
               ELSE <<(CHOOSE m \in rows : \A r \in rows : r <= m) + 1,
                      (CHOOSE m \in cols : \A c \in cols : c <= m) + 1>>]

\* The spline builder on its own, a statement at a time (lines 177-186).
SplineRamp ==
  /\ sp.stage = "ramp"
  /\ sp' = [sp EXCEPT !.stage = "convolve", !.spl = Ramp(sp.s)]
  /\ UNCHANGED <<options, pc, entry, entry_options, args, invoked,
                 arma, basis, old_options, solved_with, res, out, error>>

SplineConvolve ==
  /\ sp.stage = "convolve"
  /\ \/ /\ ConvolveRaises(sp.spl, sp.spl)
        /\ sp' = [sp EXCEPT !.stage = "raised"]
     \/ /\ ~ConvolveRaises(sp.spl, sp.spl)
        /\ sp' = [sp EXCEPT !.stage = "normalise", !.spl = Convolve(sp.spl, sp.spl)]
  /\ UNCHANGED <<options, pc, entry, entry_options, args, invoked,
                 arma, basis, old_options, solved_with, res, out, error>>

SplineNormalise ==
  /\ sp.stage = "normalise"
  /\ sp' = [sp EXCEPT !.stage = "assemble", !.spl = Normalise(sp.spl)]
  /\ UNCHANGED <<options, pc, entry, entry_options, args, invoked,
                 arma, basis, old_options, solved_with, res, out, error>>

SplineAssemble ==
  /\ sp.stage = "assemble"
  /\ sp' = [sp EXCEPT !.stage = "built", !.B = <<Assemble(sp.spl, sp.n, sp.s)>>]
  /\ UNCHANGED <<options, pc, entry, entry_options, args, invoked,
                 arma, basis, old_options, solved_with, res, out, error>>

\* ------------------------------------------------------------- the calls

NoArgs ==
  [eda_signal |-> <<>>, sampling_rate |-> 1, method |-> <<>>,
   tau0 |-> DefaultTau0, tau1 |-> DefaultTau1, delta_knot |-> DefaultDeltaKnot,
   solver |-> "None", reltol |-> DefaultReltol]

Raise(p, type, at) ==
  /\ pc' = [pc EXCEPT ![p] = "raised"]
  /\ error' = [error EXCEPT ![p] = <<[type |-> type, at |-> at]>>]

\* A caller calls eda_decompose(eda_signal, sampling_rate, method).
CallDecompose(p) ==
  /\ pc[p] = "idle"
  /\ \E sig \in Signals, sr \in SamplingRates, m \in Methods :
       args' = [args EXCEPT ![p] =
                  [NoArgs EXCEPT !.eda_signal = sig, !.sampling_rate = sr, !.method = m]]
  /\ pc' = [pc EXCEPT ![p] = "dispatch"]
  /\ entry' = [entry EXCEPT ![p] = "eda_decompose"]
  /\ entry_options' = [entry_options EXCEPT ![p] = options]
  /\ UNCHANGED <<options, invoked, arma, basis, old_options,
                 solved_with, res, out, error, sp>>

\* A caller calls _eda_decompose_cvxeda with parameters of its own.
CallCvxeda(p) ==
  /\ pc[p] = "idle"
  /\ \E sig \in Signals, sr \in SamplingRates, t0 \in Taus, t1 \in Taus,
        dk \in DeltaKnots, sv \in Solvers, rt \in Reltols :
       args' = [args EXCEPT ![p] =
                  [NoArgs EXCEPT !.eda_signal = sig, !.sampling_rate = sr,
                                 !.tau0 = t0, !.tau1 = t1, !.delta_knot = dk,
                                 !.solver = sv, !.reltol = rt]]
  /\ pc' = [pc EXCEPT ![p] = "cvx_import"]
  /\ entry' = [entry EXCEPT ![p] = "_eda_decompose_cvxeda"]
  /\ entry_options' = [entry_options EXCEPT ![p] = options]
  /\ UNCHANGED <<options, invoked, arma, basis, old_options,
                 solved_with, res, out, error, sp>>

\* Lines 62-71: the branch the lowercased name takes.
RouteOf(method) ==
  IF method = S_cvxeda THEN "cvxeda"
  ELSE IF method \in {S_median, S_smoothmedian} THEN "median"
  ELSE IF method \in {S_highpass, S_biopac, S_acqknowledge} THEN "highpass"
  ELSE "invalid"

\* eda_decompose, lines 62-71.
Dispatch(p) ==
  /\ pc[p] = "dispatch"
  /\ LET route == RouteOf(Lower(args[p].method)) IN
       \/ /\ route = "cvxeda"
          /\ invoked' = [invoked EXCEPT ![p] = Append(@, "_eda_decompose_cvxeda")]
          /\ pc' = [pc EXCEPT ![p] = "cvx_import"]
          /\ UNCHANGED error
       \/ /\ route = "median"
          /\ invoked' = [invoked EXCEPT ![p] = Append(@, "_eda_decompose_mediansmooth")]
          /\ pc' = [pc EXCEPT ![p] = "median"]
          /\ UNCHANGED error
       \/ /\ route = "highpass"
          /\ invoked' = [invoked EXCEPT ![p] = Append(@, "_eda_decompose_highpass")]
          /\ pc' = [pc EXCEPT ![p] = "highpass"]
          /\ UNCHANGED error
       \/ /\ route = "invalid"
          /\ Raise(p, "ValueError", "dispatch")
          /\ UNCHANGED invoked
  /\ UNCHANGED <<options, entry, entry_options, args, arma, basis,
                 old_options, solved_with, res, out, sp>>

\* ------------------------------------------------------ filter decomposers

\* signal_smooth(signal, kernel='median', size): some signal of the same length.
SignalSmooth(signal, kernel, size) == [1..Len(signal) -> SampleVals]

\* signal_filter(signal, sampling_rate, lowcut/highcut, method="butter"): some
\* signal of the same length.
SignalFilter(signal, sampling_rate, band, method) == [1..Len(signal) -> SampleVals]

MedianPhasicReversed(signal, tonic) ==
  [i \in 1..Len(signal) |-> tonic[i] - signal[i]]

\* Line 87: phasic = eda_signal - tonic
MedianPhasic(signal, tonic) == [i \in 1..Len(signal) |-> signal[i] - tonic[i]]

\* _eda_decompose_mediansmooth, lines 85-92.
MedianSmooth(p) ==
  /\ pc[p] = "median"
  /\ LET size == DefaultSmoothingFactor * args[p].sampling_rate IN
       \E tonic \in SignalSmooth(args[p].eda_signal, "median", size) :
         out' = [out EXCEPT ![p] =
                   <<[EDA_Tonic |-> tonic,
                      EDA_Phasic |-> MedianPhasic(args[p].eda_signal, tonic)]>>]
  /\ pc' = [pc EXCEPT ![p] = "done"]
  /\ UNCHANGED <<options, entry, entry_options, args, invoked, arma,
                 basis, old_options, solved_with, res, error, sp>>

\* _eda_decompose_highpass, lines 102-108.
Highpass(p) ==
  /\ pc[p] = "highpass"
  /\ \E phasic \in SignalFilter(args[p].eda_signal, args[p].sampling_rate,
                                "lowcut=0.05", "butter"),
        tonic \in SignalFilter(args[p].eda_signal, args[p].sampling_rate,
                               "highcut=0.05", "butter") :
       out' = [out EXCEPT ![p] = <<[EDA_Tonic |-> tonic, EDA_Phasic |-> phasic]>>]
  /\ pc' = [pc EXCEPT ![p] = "done"]
  /\ UNCHANGED <<options, entry, entry_options, args, invoked, arma,
                 basis, old_options, solved_with, res, error, sp>>

\* ------------------------------------------------------------------ cvxEDA

\* Lines 146-151: `import cvxopt` succeeds, or the module is not installed.
CvxImport(p) ==
  /\ pc[p] = "cvx_import"
  /\ \/ /\ pc' = [pc EXCEPT ![p] = "cvx_arma"]
        /\ UNCHANGED error
     \/ Raise(p, "ImportError", "import")
  /\ UNCHANGED <<options, entry, entry_options, args, invoked, arma,
                 basis, old_options, solved_with, res, out, sp>>

\* Lines 163-168 for time constants in tenths of a second: with
\* a1 = 10/tmin, a0 = 10/tmax and frequency = 1/sr, the three quotients of
\* line 165-167 have the numerators below over the one denominator
\* 10*(tmax - tmin), which is 0 (numpy yields inf or nan, and no exception)
\* exactly when tau0 = tau1.
ArCoefficients(tau0, tau1, sr) ==
  LET tmin == Min(tau1, tau0)
      tmax == Max(tau1, tau0)
  IN [num |-> <<(10 + 2 * tmin * sr) * (10 + 2 * tmax * sr),
                200 - 8 * tmin * tmax * sr * sr,
                (10 - 2 * tmin * sr) * (10 - 2 * tmax * sr)>>,
      den |-> 10 * (tmax - tmin)]

\* Lines 157-173: 1./min(tau1, tau0) and 1./max(tau1, tau0) raise
\* ZeroDivisionError on a zero; np.tile(ar, (n-2, 1)) raises ValueError on a
\* negative repetition count.
CvxArma(p) ==
  /\ pc[p] = "cvx_arma"
  /\ LET a == args[p]
         n == Len(a.eda_signal)
     IN \/ /\ Min(a.tau1, a.tau0) = 0 \/ Max(a.tau1, a.tau0) = 0
           /\ Raise(p, "ZeroDivisionError", "arma")
           /\ UNCHANGED arma
        \/ /\ Min(a.tau1, a.tau0) # 0 /\ Max(a.tau1, a.tau0) # 0
           /\ n < 2
           /\ Raise(p, "ValueError", "arma")
           /\ UNCHANGED arma
        \/ /\ Min(a.tau1, a.tau0) # 0 /\ Max(a.tau1, a.tau0) # 0
           /\ n >= 2
           /\ arma' = [arma EXCEPT ![p] =
                         <<[ar |-> ArCoefficients(a.tau0, a.tau1, a.sampling_rate),
                            ma |-> <<1, 2, 1>>,
                            rows |-> 2..(n - 1)]>>]
           /\ pc' = [pc EXCEPT ![p] = "cvx_spline"]
           /\ UNCHANGED error
  /\ UNCHANGED <<options, entry, entry_options, args, invoked,
                 basis, old_options, solved_with, res, out, sp>>

\* Lines 176-190.
CvxSpline(p) ==
  /\ pc[p] = "cvx_spline"
  /\ LET a == args[p]
         n == Len(a.eda_signal)
         delta_knot_s == KnotSamples(a.delta_knot, a.sampling_rate)
         ramp == Ramp(delta_knot_s)
     IN \/ /\ ConvolveRaises(ramp, ramp)
           /\ Raise(p, "ValueError", "spline")
           /\ UNCHANGED basis
        \/ /\ ~ConvolveRaises(ramp, ramp)
           /\ LET spl == Normalise(Convolve(ramp, ramp))
                  b == Assemble(spl, n, delta_knot_s)
              IN basis' = [basis EXCEPT ![p] =
                             <<[nB |-> b.nB, size |-> b.size, taps |-> Len(spl),
                                nnz |-> Cardinality(b.B)]>>]
           /\ pc' = [pc EXCEPT ![p] = "cvx_save"]
           /\ UNCHANGED error
  /\ UNCHANGED <<options, entry, entry_options, args, invoked,
                 arma, old_options, solved_with, res, out, sp>>

\* Line 196: old_options = cvxopt.solvers.options.copy()
CvxSaveOptions(p) ==
  /\ pc[p] = "cvx_save"
  /\ old_options' = [old_options EXCEPT ![p] = DictCopy(options)]
  /\ pc' = [pc EXCEPT ![p] = "cvx_clear"]
  /\ UNCHANGED <<options, entry, entry_options, args, invoked, arma,
                 basis, solved_with, res, out, error, sp>>

\* Line 197: cvxopt.solvers.options.clear()
CvxClearOptions(p) ==
  /\ pc[p] = "cvx_clear"
  /\ options' = EmptyDict
  /\ pc' = [pc EXCEPT ![p] = "cvx_update"]
  /\ UNCHANGED <<entry, entry_options, args, invoked, arma, basis,
                 old_options, solved_with, res, out, error, sp>>

\* Lines 198-199: options.update({'reltol': reltol, 'show_progress': False})
CvxSetOptions(p) ==
  /\ pc[p] = "cvx_update"
  /\ options' = DictUpdate(options,
                  [k \in {"reltol", "show_progress"} |->
                     IF k = "reltol" THEN args[p].reltol ELSE 0])
  /\ pc' = [pc EXCEPT ![p] = "cvx_solve"]
  /\ UNCHANGED <<entry, entry_options, args, invoked, arma, basis,
                 old_options, solved_with, res, out, error, sp>>

\* The unknowns of the quadratic program, a label per entry of x: the block
\* columns of H (lines 214-215) are n, nC and nB wide.
QpVariables(n, nC, nB) ==
  [k \in 1..(n + nC + nB) |->
     IF k <= n THEN "q" ELSE IF k <= n + nC THEN "d" ELSE "l"]

\* The unknowns of the cone program: the block columns of G (lines 202-206)
\* are n, nC, 1, 1 and nB wide.
ConeVariables(n, nC, nB) ==
  [k \in 1..(n + nC + 2 + nB) |->
     IF k <= n THEN "q"
     ELSE IF k <= n + nC THEN "d"
     ELSE IF k <= n + nC + 2 THEN "t"
     ELSE "l"]

VariablesOf(solver, n, nC, nB) ==
  IF solver = "conelp" THEN ConeVariables(n, nC, nB) ELSE QpVariables(n, nC, nB)

\* The tolerance a solver call reads from cvxopt.solvers.options.
ReltolIn(opts) ==
  IF "reltol" \in DOMAIN opts THEN opts["reltol"] ELSE SolverOwnReltol

\* What cvxopt.solvers.qp or conelp may hand back: a status with a vector x
\* (here each entry of x is its own place in x), and for conelp also an
\* infeasibility certificate with x None.
SolverResults(solver, n, nC, nB) ==
  LET x == [k \in 1..Len(VariablesOf(solver, n, nC, nB)) |-> k] IN
    {[status |-> st, x |-> <<x>>] : st \in {"optimal", "unknown"}}
      \cup (IF solver = "conelp"
            THEN {[status |-> st, x |-> <<>>] :
                    st \in {"primal infeasible", "dual infeasible"}}
            ELSE {})

\* Lines 200-218: the solver call, which reads the process-wide options and
\* either returns a result or raises (a singular KKT matrix, a domain error).
CvxSolve(p) ==
  /\ pc[p] = "cvx_solve"
  /\ solved_with' = [solved_with EXCEPT ![p] = <<ReltolIn(options)>>]
  /\ \/ /\ \E r \in SolverResults(args[p].solver, Len(args[p].eda_signal),
                                  TrendColumns, basis[p][1].nB) :
             res' = [res EXCEPT ![p] = <<r>>]
        /\ pc' = [pc EXCEPT ![p] = "cvx_clear2"]
        /\ UNCHANGED error
     \/ /\ Raise(p, "ArithmeticError", "solve")
        /\ UNCHANGED res
  /\ UNCHANGED <<options, entry, entry_options, args, invoked, arma,
                 basis, old_options, out, sp>>

\* Line 219: cvxopt.solvers.options.clear()
CvxClearOptionsAfter(p) ==
  /\ pc[p] = "cvx_clear2"
  /\ options' = EmptyDict
  /\ pc' = [pc EXCEPT ![p] = "cvx_restore"]
  /\ UNCHANGED <<entry, entry_options, args, invoked, arma, basis,
                 old_options, solved_with, res, out, error, sp>>

\* Line 220: cvxopt.solvers.options.update(old_options)
CvxRestoreOptions(p) ==
  /\ pc[p] = "cvx_restore"
  /\ options' = DictUpdate(options, old_options[p])
  /\ pc' = [pc EXCEPT ![p] = "cvx_decode"]
  /\ UNCHANGED <<entry, entry_options, args, invoked, arma, basis,
                 old_options, solved_with, res, out, error, sp>>

\* A Python slice bound on a sequence of length len.
SliceBound(i, len) == IF i < 0 THEN Max(len + i, 0) ELSE Min(i, len)

\* x[a:b], places counted from 0.
PySlice(x, a, b) ==
  LET lo == SliceBound(a, Len(x))
      hi == SliceBound(b, Len(x))
  IN [k \in 1..Max(hi - lo, 0) |-> x[lo + k]]

TonicSplinesAfterDrift(x, n, nC, nB) == PySlice(x, n + nC, n + nC + nB)

\* Line 222: res['x'][-nB:]
TonicSplines(x, n, nC, nB) == PySlice(x, -nB, Len(x))

\* Lines 222-233: a None x cannot be sliced, and B * tonic_splines needs B to
\* have n rows and as many columns as tonic_splines has entries.
CvxDecode(p) ==
  /\ pc[p] = "cvx_decode"
  /\ LET n == Len(args[p].eda_signal)
         nB == basis[p][1].nB
         nC == TrendColumns
         r == res[p][1]
     IN \/ /\ r.x = <<>>
           /\ Raise(p, "TypeError", "decode")
           /\ UNCHANGED out
        \/ /\ r.x # <<>>
           /\ LET x == r.x[1]
                  tonic_splines == TonicSplines(x, n, nC, nB)
                  drift == PySlice(x, n, n + nC)
                  q == PySlice(x, 0, n)
              IN \/ /\ basis[p][1].size # <<n, Len(tonic_splines)>>
                    /\ Raise(p, "TypeError", "decode")
                    /\ UNCHANGED out
                 \/ /\ basis[p][1].size = <<n, Len(tonic_splines)>>
                    /\ out' = [out EXCEPT ![p] =
                                 <<[EDA_Tonic |-> [B |-> tonic_splines, C |-> drift],
                                    EDA_Phasic |-> [M |-> q]]>>]
                    /\ pc' = [pc EXCEPT ![p] = "done"]
                    /\ UNCHANGED error
  /\ UNCHANGED <<options, entry, entry_options, args, invoked, arma,
                 basis, old_options, solved_with, res, sp>>

\* ---------------------------------------------------------- specifications

SpOff == [stage |-> "off", n |-> 0, s |-> 0, spl |-> <<>>, B |-> <<>>]

\* One caller thread (thread 1) in a process whose solver options are cvxopt's
\* own or a user's; thread 2 does not run.
Init ==
  /\ options \in InitOptions
  /\ pc = [p \in Threads |-> IF p = 1 THEN "idle" ELSE "off"]
  /\ entry = [p \in Threads |-> "none"]
  /\ entry_options = [p \in Threads |-> EmptyDict]
  /\ args = [p \in Threads |-> NoArgs]
  /\ invoked = [p \in Threads |-> <<>>]
  /\ arma = [p \in Threads |-> <<>>]
  /\ basis = [p \in Threads |-> <<>>]
  /\ old_options = [p \in Threads |-> EmptyDict]
  /\ solved_with = [p \in Threads |-> <<>>]
  /\ res = [p \in Threads |-> <<>>]
  /\ out = [p \in Threads |-> <<>>]
  /\ error = [p \in Threads |-> <<>>]
  /\ sp = SpOff

Next ==
  \E p \in Threads :
    \/ CallDecompose(p)
    \/ CallCvxeda(p)
    \/ Dispatch(p)
    \/ MedianSmooth(p)
    \/ Highpass(p)
    \/ CvxImport(p)
    \/ CvxArma(p)
    \/ CvxSpline(p)
    \/ CvxSaveOptions(p)
    \/ CvxClearOptions(p)
    \/ CvxSetOptions(p)
    \/ CvxSolve(p)
    \/ CvxClearOptionsAfter(p)
    \/ CvxRestoreOptions(p)
    \/ CvxDecode(p)

Spec == Init /\ [][Next]_vars

\* The spline builder applied to every signal length and knot spacing of the
\* bounds; no thread runs.
InitSpline ==
  /\ options = EmptyDict
  /\ pc = [p \in Threads |-> "off"]
  /\ entry = [p \in Threads |-> "none"]
  /\ entry_options = [p \in Threads |-> EmptyDict]
  /\ args = [p \in Threads |-> NoArgs]
  /\ invoked = [p \in Threads |-> <<>>]
  /\ arma = [p \in Threads |-> <<>>]
  /\ basis = [p \in Threads |-> <<>>]
  /\ old_options = [p \in Threads |-> EmptyDict]
  /\ solved_with = [p \in Threads |-> <<>>]
  /\ res = [p \in Threads |-> <<>>]
  /\ out = [p \in Threads |-> <<>>]
  /\ error = [p \in Threads |-> <<>>]
  /\ sp \in {[stage |-> "ramp", n |-> n, s |-> s, spl |-> <<>>, B |-> <<>>] :
               n \in 1..MaxN, s \in 0..MaxKnot}

NextSpline == SplineRamp \/ SplineConvolve \/ SplineNormalise \/ SplineAssemble

SpecSpline == InitSpline /\ [][NextSpline]_vars

\* The state of a thread that called _eda_decompose_cvxeda(eda_signal, solver=,
\* reltol=) with the other parameters at their defaults and is about to run
\* line 196.
ConcArgs(sig, sv, rt) ==
  [NoArgs EXCEPT !.eda_signal = sig, !.solver = sv, !.reltol = rt]

ConcBasis(a) ==
  LET s == KnotSamples(a.delta_knot, a.sampling_rate)
      spl == Normalise(Convolve(Ramp(s), Ramp(s)))
      b == Assemble(spl, Len(a.eda_signal), s)
  IN <<[nB |-> b.nB, size |-> b.size, taps |-> Len(spl), nnz |-> Cardinality(b.B)]>>

\* Two threads of one process, each in a cvxEDA call with a reltol of its own,
\* both about to save the options.
InitConc ==
  /\ options \in InitOptions
  /\ pc = [p \in Threads |-> "cvx_save"]
  /\ entry = [p \in Threads |-> "_eda_decompose_cvxeda"]
  /\ entry_options = [p \in Threads |-> options]
  /\ \E sv1 \in Solvers, sv2 \in Solvers, rt1 \in Reltols, rt2 \in Reltols :
       /\ rt1 # rt2
       /\ args = [p \in Threads |->
                    IF p = 1 THEN ConcArgs(<<0, 1>>, sv1, rt1)
                    ELSE ConcArgs(<<1, 0, 1>>, sv2, rt2)]
  /\ invoked = [p \in Threads |-> <<>>]
  /\ arma = [p \in Threads |->
               <<[ar |-> ArCoefficients(args[p].tau0, args[p].tau1,
                                        args[p].sampling_rate),
                  ma |-> <<1, 2, 1>>,
                  rows |-> 2..(Len(args[p].eda_signal) - 1)]>>]
  /\ basis = [p \in Threads |-> ConcBasis(args[p])]
  /\ old_options = [p \in Threads |-> EmptyDict]
  /\ solved_with = [p \in Threads |-> <<>>]
  /\ res = [p \in Threads |-> <<>>]
  /\ out = [p \in Threads |-> <<>>]
  /\ error = [p \in Threads |-> <<>>]
  /\ sp = SpOff

NextConc ==
  \E p \in Threads :
    \/ CvxSaveOptions(p)
    \/ CvxClearOptions(p)
    \/ CvxSetOptions(p)
    \/ CvxSolve(p)
    \/ CvxClearOptionsAfter(p)
    \/ CvxRestoreOptions(p)
    \/ CvxDecode(p)

SpecConc == InitConc /\ [][NextConc]_vars

\* ------------------------------------------------------------------ claims

Ended(p) == pc[p] \in {"done", "raised"}

\* The thread is in, or has left, _eda_decompose_cvxeda.
InCvxeda(p) ==
  \/ entry[p] = "_eda_decompose_cvxeda"
  \/ invoked[p] = <<"_eda_decompose_cvxeda">>

\* Statements of _eda_decompose_cvxeda from line 196 on, and its return.
FromSaveOn ==
  {"cvx_save", "cvx_clear", "cvx_update", "cvx_solve", "cvx_clear2",
   "cvx_restore", "cvx_decode", "done"}

\* Time constants the specification rules out.
BadTaus(a) == a.tau0 = a.tau1 \/ a.tau0 <= 0 \/ a.tau1 <= 0

\* C1: for every cvxEDA call that reaches the solver, the process-wide solver
\* options after the call has ended (with a result, or with an error raised by
\* the solver call) equal the options that held just before the call began.
CE_C1_RestoredOnEveryExit ==
  \A p \in Threads :
    (InCvxeda(p) /\ Ended(p) /\ solved_with[p] # <<>> /\ ~BadTaus(args[p]))
      => options = entry_options[p]

\* C2: when the steps of two cvxEDA calls with different reltol interleave,
\* each call's solve runs with its own reltol, and once both calls have run
\* all their steps the process-wide options equal the options that held before
\* either call started.
CE_C2_CallsDoNotObserveEachOther ==
  /\ \A p \in Threads :
       solved_with[p] # <<>> => solved_with[p][1] = args[p].reltol
  /\ (\A p \in Threads : pc[p] = "done") => options = entry_options[1]

\* C4: whenever the solver returns a status other than optimal, the cvxEDA
\* call returns no Tonic/Phasic table and ends with a NumericalFailure error;
\* a table is returned only after a solve that reports convergence.
CE_C4_NoResultWithoutConvergence ==
  \A p \in Threads :
    (InCvxeda(p) /\ ~BadTaus(args[p])
       /\ res[p] # <<>> /\ res[p][1].status # "optimal")
      => /\ out[p] = <<>>
         /\ pc[p] # "done"
         /\ pc[p] = "raised" => error[p][1].type = "NumericalFailure"

\* C5: a cvxEDA call with tau0 = tau1, or with tau0 <= 0 or tau1 <= 0, ends
\* with an InvalidArgument error (ValueError) before the ARMA coefficients are
\* used, before the solver options are changed and before the solver is
\* invoked, and returns no result.
CE_C5_BadTausRejected ==
  \A p \in Threads :
    (InCvxeda(p) /\ BadTaus(args[p]))
      => /\ arma[p] = <<>>
         /\ pc[p] \notin {"cvx_spline"} \cup FromSaveOn
         /\ solved_with[p] = <<>>
         /\ out[p] = <<>>
         /\ pc[p] = "raised" =>
              error[p][1].type = "ValueError" \/ error[p][1].at = "import"

\* round(delta_knot * sampling_rate) < 1, delta_knot in halves: the product is
\* at most one half, which rounds to 0.
SpacingBelowOne(a) == a.delta_knot * a.sampling_rate <= 1

\* C6: a cvxEDA call whose knot spacing s = round(delta_knot * sampling_rate)
\* is below 1 never builds the spline basis, never changes the solver options
\* and never invokes the solver; it ends with an error, which is ValueError
\* (raised by the spline step) unless the call had already ended at the import
\* or at the ARMA step.
Thm_C6_SpacingBelowOneRejected ==
  \A p \in Threads :
    (InCvxeda(p) /\ SpacingBelowOne(args[p]))
      => /\ basis[p] = <<>>
         /\ pc[p] \notin FromSaveOn
         /\ options = entry_options[p]
         /\ solved_with[p] = <<>>
         /\ out[p] = <<>>
         /\ pc[p] = "raised" =>
              \/ error[p][1] = [type |-> "ValueError", at |-> "spline"]
              \/ error[p][1].at \in {"import", "arma"}

Wit_C6_RaisedAtSpline ==
  \E p \in Threads :
    /\ InCvxeda(p) /\ SpacingBelowOne(args[p])
    /\ args[p].delta_knot * args[p].sampling_rate = 1
    /\ arma[p] # <<>>
    /\ pc[p] = "raised"
    /\ error[p][1] = [type |-> "ValueError", at |-> "spline"]

\* Two characters are the same letter, in whichever case.
SameLetter(c, d) ==
  \/ c = d
  \/ \E k \in 1..Len(LowerCase) :
       {c, d} \subseteq {LowerCase[k], UpperCase[k]}

SameIgnoringCase(a, b) ==
  /\ Len(a) = Len(b)
  /\ \A i \in 1..Len(a) : SameLetter(a[i], b[i])

SpelledLike(m, names) == \E k \in names : SameIgnoringCase(m, k)

PhasicIsSignalMinusTonic(p) ==
  LET sig == args[p].eda_signal
      t == out[p][1]
  IN /\ Len(t.EDA_Tonic) = Len(sig)
     /\ Len(t.EDA_Phasic) = Len(sig)
     /\ \A i \in 1..Len(sig) : t.EDA_Phasic[i] = sig[i] - t.EDA_Tonic[i]

\* C7 as stated: for every signal and for both filter-based methods (median
\* and highpass), the returned table has Phasic[i] = Signal[i] - Tonic[i] at
\* every sample.
CE_C7_BothFilterMethodsSubtract ==
  \A p \in Threads :
    (out[p] # <<>> /\ invoked[p] \in {<<"_eda_decompose_mediansmooth">>,
                                      <<"_eda_decompose_highpass">>})
      => PhasicIsSignalMinusTonic(p)

\* C7 amended: for every signal and the median method, the returned table has
\* Phasic[i] = Signal[i] - Tonic[i] at every sample; the highpass method
\* returns two filter outputs of the signal's length.
Thm_C7_MedianSubtracts ==
  \A p \in Threads :
    /\ (out[p] # <<>> /\ invoked[p] = <<"_eda_decompose_mediansmooth">>)
         => PhasicIsSignalMinusTonic(p)
    /\ (out[p] # <<>> /\ invoked[p] = <<"_eda_decompose_highpass">>)
         => /\ Len(out[p][1].EDA_Tonic) = Len(args[p].eda_signal)
            /\ Len(out[p][1].EDA_Phasic) = Len(args[p].eda_signal)

Wit_C7_MedianResult ==
  \E p \in Threads :
    /\ invoked[p] = <<"_eda_decompose_mediansmooth">>
    /\ pc[p] = "done"
    /\ args[p].eda_signal = <<1, 0, 1>>
    /\ out[p][1].EDA_Tonic = <<0, 1, 1>>
    /\ out[p][1].EDA_Phasic = <<1, -1, 0>>

Symmetric(q) == \A i \in 1..Len(q) : q[i] = q[Len(q) + 1 - i]

\* The kernel has `taps` taps, is symmetric about its centre tap, and has its
\* peak, of value 1, there.
TentOf(q, taps) ==
  /\ Len(q) = taps
  /\ Symmetric(q)
  /\ LET c == (taps + 1) \div 2 IN
       /\ q[c][1] = q[c][2]
       /\ \A i \in 1..Len(q) : i # c => q[i][1] < q[i][2]

\* Every column of B stores at most `taps` entries, all within `reach` rows of
\* its knot, row col * s.
ColumnsWithin(b, s, taps, reach) ==
  \A c \in 0..(b.nB - 1) :
    LET col == {t \in b.B : t.col = c} IN
      /\ Cardinality(col) <= taps
      /\ \A t \in col : t.row - c * s \in (0 - reach)..reach

\* C8 as stated: for every knot spacing s >= 1 the kernel of the spline step
\* has exactly 2s-1 taps, is symmetric about its centre tap and has peak value
\* 1 there, so each column of B stores at most 2s-1 entries, within s-1 rows
\* of its knot.
CE_C8_KernelHas2sMinus1Taps ==
  (sp.s >= 1 /\ sp.stage \in {"assemble", "built"}) =>
    /\ TentOf(sp.spl, 2 * sp.s - 1)
    /\ sp.stage = "built" => ColumnsWithin(sp.B[1], sp.s, 2 * sp.s - 1, sp.s - 1)

\* C8 amended: for every knot spacing s >= 1 the kernel of the spline step has
\* exactly 4s-3 taps, is symmetric about its centre tap and has peak value 1
\* there, so each column of B stores at most 4s-3 entries, within 2s-2 rows of
\* its knot.
Thm_C8_KernelHas4sMinus3Taps ==
  (sp.s >= 1 /\ sp.stage \in {"assemble", "built"}) =>
    /\ TentOf(sp.spl, 4 * sp.s - 3)
    /\ sp.stage = "built" =>
         ColumnsWithin(sp.B[1], sp.s, 4 * sp.s - 3, 2 * sp.s - 2)

Wit_C8_FullColumn ==
  /\ sp.stage = "built"
  /\ sp.s = 2
  /\ Len(sp.spl) = 5
  /\ Cardinality({t \in sp.B[1].B : t.col = 1}) = 5
  /\ [row |-> 0, col |-> 1, val |-> sp.spl[1]] \in sp.B[1].B

CeilDiv(n, s) == (n + s - 1) \div s

\* C9: for every signal length n >= 1 and knot spacing s >= 1, B has exactly n
\* rows and ceil(n/s) columns (its size coming from its largest stored row and
\* column), column j has its peak tap at row j*s, every stored entry has its
\* row in [0, n), and row n-1 and column ceil(n/s)-1 each hold a stored entry.
Thm_C9_BasisShape ==
  (sp.s >= 1 /\ sp.stage = "built") =>
    LET b == sp.B[1]
        nB == CeilDiv(sp.n, sp.s)
    IN /\ b.nB = nB
       /\ b.size = <<sp.n, nB>>
       /\ \A t \in b.B : t.row >= 0 /\ t.row < sp.n /\ t.col \in 0..(nB - 1)
       /\ \A j \in 0..(nB - 1) :
            \E t \in b.B : t.col = j /\ t.row = j * sp.s /\ t.val[1] = t.val[2]
       /\ \E t \in b.B : t.row = sp.n - 1
       /\ \E t \in b.B : t.col = nB - 1

Wit_C9_TapsDropped ==
  /\ sp.stage = "built"
  /\ sp.s = 3 /\ sp.n = 8
  /\ sp.B[1].size = <<8, 3>>
  /\ Cardinality(sp.B[1].B) < 3 * Len(sp.spl)

\* The places of x that hold the unknowns of one block.
PlacesOf(vs, label) == {k \in 1..Len(vs) : vs[k] = label}

Places(q) == {q[i] : i \in 1..Len(q)}

\* C10 as stated: for both solver encodings x is decoded as q = x[0:n],
\* d = x[n:n+2] and l = x[n+2:], l has exactly nB entries, the three slices
\* cover every entry of x exactly once, and the entries the code takes from
\* the end of x are those of x[n+2:].
CE_C10_SlicesCoverBothEncodings ==
  \A p \in Threads :
    (InCvxeda(p) /\ out[p] # <<>>) =>
      LET x == res[p][1].x[1]
          n == Len(args[p].eda_signal)
          l == out[p][1].EDA_Tonic.B
          d == out[p][1].EDA_Tonic.C
          q == out[p][1].EDA_Phasic.M
      IN /\ q = PySlice(x, 0, n)
         /\ d = PySlice(x, n, n + 2)
         /\ l = PySlice(x, n + 2, Len(x))
         /\ Len(l) = basis[p][1].nB
         /\ q \o d \o l = x

\* C10 amended: for both solver encodings q = x[0:n] holds the n unknowns of
\* the driver, d = x[n:n+2] the two of the trend, and l, the last nB entries
\* of x, the nB spline coefficients; for the quadratic program l = x[n+2:] and
\* the three slices cover x exactly once; for the cone program x has two more
\* entries, x[n+2] and x[n+3], which no slice covers, and l = x[n+4:].
Thm_C10_SlicesPerEncoding ==
  \A p \in Threads :
    (InCvxeda(p) /\ out[p] # <<>>) =>
      LET x == res[p][1].x[1]
          n == Len(args[p].eda_signal)
          nB == basis[p][1].nB
          vs == VariablesOf(args[p].solver, n, TrendColumns, nB)
          l == out[p][1].EDA_Tonic.B
          d == out[p][1].EDA_Tonic.C
          q == out[p][1].EDA_Phasic.M
      IN /\ q = PySlice(x, 0, n) /\ Places(q) = PlacesOf(vs, "q")
         /\ d = PySlice(x, n, n + 2) /\ Places(d) = PlacesOf(vs, "d")
         /\ Len(l) = nB /\ Places(l) = PlacesOf(vs, "l")
         /\ args[p].solver # "conelp" =>
              l = PySlice(x, n + 2, Len(x)) /\ q \o d \o l = x
         /\ args[p].solver = "conelp" =>
              /\ l = PySlice(x, n + 4, Len(x))
              /\ q \o d \o PySlice(x, n + 2, n + 4) \o l = x
              /\ Len(x) = n + nB + 4

Wit_C10_ConeProgramDecoded ==
  \E p \in Threads :
    /\ InCvxeda(p) /\ pc[p] = "done"
    /\ args[p].solver = "conelp"
    /\ Len(args[p].eda_signal) = 3
    /\ basis[p][1].nB = 2
    /\ out[p][1].EDA_Tonic.B = <<8, 9>>

====
